---- MODULE Spec2Model ----
(***************************************************************************)
(* Model of the leadrboard backend.                                        *)
(*   app/services/recommendation.py  GameRecommendation                    *)
(*   app/api/games.py                get_personalized_games                *)
(*   app/api/reviews.py              create_review, get_review,            *)
(*                                   delete_review                         *)
(*   app/api/interactions.py         like_review, unlike_review,           *)
(*                                   get_review_likes, create_comment,     *)
(*                                   get_review_comments, update_comment,  *)
(*                                   delete_comment                        *)
(*   app/api/feed.py                 get_feed                              *)
(*   app/api/social.py               send_follow_request,                  *)
(*                                   approve_follow_request,               *)
(*                                   reject_follow_request                 *)
(* The store (the Game, Review, User, Like, Follow and Comment tables) is  *)
(* the state.  A handler that reads and writes with no await in between    *)
(* that matters is one action; handlers whose interleaving is studied are  *)
(* cut at their awaits.  Each specification below moves the tables its     *)
(* handlers write and starts the others from rows the handlers can create. *)
(* Ids are never reused: a deleted Review or Comment row keeps its         *)
(* position in the table and holds DeletedReview or DeletedComment.        *)
(*                                                                         *)
(* Numbers.  Ratings are integers here.  A cosine similarity is kept as    *)
(* the integer floor(Scale * sim): equal reals give equal integers and the *)
(* order of reals is never inverted.  pivot_table's mean of the rows of    *)
(* one (user, game) pair is kept as a numerator over a per-user common     *)
(* denominator, which cosine similarity (scale invariant per row) cancels. *)
(***************************************************************************)
EXTENDS Integers, Sequences, FiniteSets

VARIABLES
    \* the Game table: the ids of its rows
    games,
    \* the Review table: its rows in id order (the id of a row is its position)
    reviews,
    \* the response of the personalized request in flight
    resp,
    \* User.private of every registered user
    private,
    \* the Like table: pairs <<review_id, user_id>>
    likes,
    \* the Follow table: records [followed_id, follower_id, status]
    follows,
    \* the create_review requests in flight
    pending,
    \* the last response of a reviews, interactions or social handler
    last,
    \* the personalized requests running concurrently
    procs,
    \* the Comment table: its rows in id order (the id of a row is its position)
    comments

vars == <<games, reviews, resp, private, likes, follows, pending, last, procs,
          comments>>

\* the tables
store == <<games, reviews, private, likes, follows, comments>>

----------------------------------------------------------------------------
(* Bounds of the model *)

\* the most rows the Review table holds
MaxReviews == 3
\* the largest limit a request asks for
MaxLimit == 2
\* the most rows the Comment table holds
MaxComments == 2
\* the largest skip a feed request asks for
MaxSkip == 2

\* the registered users
Users == {1, 2, 3}
\* the ids a Game row can have
GameIds == {100, 200, 300}
\* the ratings tried: 0 (a zero vector, below the threshold) and 7.0 (exactly
\* the threshold)
Ratings == {0, 7}
\* the limits tried; -1 is answered 400
Limits == (-1)..MaxLimit

(* Program constants *)

\* similar_users.head(10)
TopNeighbors == 10
\* df['rating'] >= 7.0
LikeThreshold == 7
\* fixed-point unit of a similarity: sim is kept as floor(Scale * sim)
Scale == 100

----------------------------------------------------------------------------
(* Generic helpers *)

Min(a, b) == IF a <= b THEN a ELSE b

Range(s) == {s[i] : i \in DOMAIN s}

RECURSIVE SumOver(_, _)
\* sum of f[x] for x in S
SumOver(S, f) ==
    IF S = {} THEN 0
    ELSE LET x == CHOOSE y \in S : TRUE
         IN f[x] + SumOver(S \ {x}, f)

RECURSIVE ProdOver(_, _)
ProdOver(S, f) ==
    IF S = {} THEN 1
    ELSE LET x == CHOOSE y \in S : TRUE
         IN f[x] * ProdOver(S \ {x}, f)

\* the elements of a set of integers, ascending
SortedAsc(S) ==
    [p \in 1..Cardinality(S) |->
        CHOOSE x \in S : Cardinality({y \in S : y < x}) = p - 1]

\* Python's s[:k] for k >= 0
Slice(s, k) == SubSeq(s, 1, Min(k, Len(s)))

----------------------------------------------------------------------------
(* GameRecommendation: the data frame and the user-by-game matrix *)

\* what is left at the position of a deleted Review row
DeletedReview == [user_id |-> 0, game_id |-> 0, rating |-> 0]

\* the ids of the rows select(Review) finds
ReviewIds(rs) == {i \in DOMAIN rs : rs[i] # DeletedReview}

\* _fetch_data: one row per Review row, in table order
FetchData(rs) ==
    LET rows == SelectSeq(rs, LAMBDA r : r # DeletedReview)
    IN [i \in DOMAIN rows |->
           [user_id |-> rows[i].user_id, game_id |-> rows[i].game_id,
            rating |-> rows[i].rating]]

\* df["user_id"].values, as a set
DfUsers(df) == {df[i].user_id : i \in DOMAIN df}

\* the game ids of the frame: the columns of the pivot table
DfGames(df) == {df[i].game_id : i \in DOMAIN df}

\* fault variant: only df.empty is tested
NotEnoughDataEmptyOnly(df, target) == df = <<>>

\* "Not enough data": df.empty or the target has no row in df
NotEnoughData(df, target) == df = <<>> \/ target \notin DfUsers(df)

\* the rows of df that pivot_table puts in cell (u, g)
Cells(df, u, g) == {i \in DOMAIN df : df[i].user_id = u /\ df[i].game_id = g}

\* the columns in which user u has a cell
RowGames(df, u) == {df[i].game_id : i \in {j \in DOMAIN df : df[j].user_id = u}}

\* fault variant: a rating of 0 is taken for a missing value, so a user whose
\* ratings are all 0 gets no row
PivotIndexRated(df) ==
    {u \in DfUsers(df) : \E i \in DOMAIN df : df[i].user_id = u /\ df[i].rating > 0}

\* the index of the pivot table: the users with at least one cell
PivotIndex(df) == {u \in DfUsers(df) : RowGames(df, u) # {}}

\* row u of user_game_matrix as the pairs <<game, value>> of its cells; a value
\* is the mean of the cell's ratings times the row's common denominator (the
\* product of the row's cell sizes)
MatrixRow(df, u) ==
    LET gs == RowGames(df, u)
        den == ProdOver(gs, [g \in gs |-> Cardinality(Cells(df, u, g))])
    IN {<<g, LET c == Cells(df, u, g)
             IN SumOver(c, [i \in c |-> df[i].rating]) * (den \div Cardinality(c))>>
        : g \in gs}

\* fillna(0): the value of a row at a game, 0 where the row has no cell
Filled(row, g) ==
    IF \E e \in row : e[1] = g THEN (CHOOSE e \in row : e[1] = g)[2] ELSE 0

\* the dot product of two filled rows
Dot(ra, rb) == SumOver(ra, [e \in ra |-> e[2] * Filled(rb, e[1])])

RECURSIVE FloorRoot(_, _, _, _)
\* the largest s in lo..hi with s * s * q <= dd, by bisection
FloorRoot(lo, hi, q, dd) ==
    IF lo = hi THEN lo
    ELSE LET mid == (lo + hi + 1) \div 2
         IN IF mid * mid * q <= dd
            THEN FloorRoot(mid, hi, q, dd)
            ELSE FloorRoot(lo, mid - 1, q, dd)

\* floor(Scale * d / sqrt(q)) for 0 <= d * d <= q, q > 0
FloorSim(d, q) == FloorRoot(0, Scale, q, d * d * Scale * Scale)

\* fault variant: the product is divided by the first row's squared norm only
CosineSimilarityOneSided(df, a, b) ==
    LET ra == MatrixRow(df, a)
        rb == MatrixRow(df, b)
        na == Dot(ra, ra)
    IN IF na = 0 THEN 0
       ELSE Min(Scale, (Dot(ra, rb) * Scale) \div na)

\* sklearn cosine_similarity, entry (a, b): the rows are normalised by their
\* norm, a zero norm being replaced by 1, and multiplied
CosineSimilarity(df, a, b) ==
    LET ra == MatrixRow(df, a)
        rb == MatrixRow(df, b)
        na == Dot(ra, ra)
        nb == Dot(rb, rb)
    IN IF na = 0 \/ nb = 0 THEN 0
       ELSE FloorSim(Dot(ra, rb), na * nb)

----------------------------------------------------------------------------
(* GameRecommendation.generate_recommendations: neighbours and scores *)

\* fault variant: .drop(target_user_id) is left out
OtherUsersWithTarget(df, target) == PivotIndex(df)

\* user_similarity_df[target].drop(target): the labels left to rank
OtherUsers(df, target) == PivotIndex(df) \ {target}

\* .sort_values(ascending=False): by similarity to the target, descending;
\* equal similarities keep the order of the index (ascending user id)
SimilarUsers(df, target) ==
    LET others == OtherUsers(df, target)
        col == {<<CosineSimilarity(df, u, target), u>> : u \in others}
        Before(a, b) == a[1] > b[1] \/ (a[1] = b[1] /\ a[2] < b[2])
    IN [p \in 1..Cardinality(col) |->
           (CHOOSE e \in col :
               Cardinality({f \in col : Before(f, e)}) = p - 1)[2]]

\* fault variant: .head(10) is left out
TopSimilarUsersAll(df, target) == SimilarUsers(df, target)

\* similar_users.head(10).index.tolist()
TopSimilarUsers(df, target) == Slice(SimilarUsers(df, target), TopNeighbors)

\* fault variant: only the games the target rated above 0
UserRatedGamesAboveZero(df, target) ==
    {df[i].game_id : i \in {j \in DOMAIN df : df[j].user_id = target /\ df[j].rating > 0}}

\* set(df[df['user_id'] == target]['game_id'])
UserRatedGames(df, target) ==
    {df[i].game_id : i \in {j \in DOMAIN df : df[j].user_id = target}}

\* fault variant: the rating >= 7.0 test is left out
TopGamesAnyRating(df, similar_user) ==
    LET Mine(row) == row.user_id = similar_user
    IN SelectSeq(df, Mine)

\* df[(df['user_id'] == similar_user) & (df['rating'] >= 7.0)], in df's order
TopGames(df, similar_user) ==
    LET Liked(row) == row.user_id = similar_user /\ row.rating >= LikeThreshold
    IN SelectSeq(df, Liked)

\* fault variant: a list of (game, score) items instead of a dict
DictAddAppend(recs, game_id, sim_score) ==
    Append(recs, [game_id |-> game_id, score |-> sim_score])

\* fault variant: the score is assigned, not accumulated
DictAddOverwrite(recs, game_id, sim_score) ==
    IF \E i \in DOMAIN recs : recs[i].game_id = game_id
    THEN [i \in DOMAIN recs |->
             IF recs[i].game_id = game_id
             THEN [game_id |-> game_id, score |-> sim_score]
             ELSE recs[i]]
    ELSE Append(recs, [game_id |-> game_id, score |-> sim_score])

\* recommendations[game_id] = recommendations.get(game_id, 0) + sim_score
\* on a dict kept as the sequence of its items in insertion order
DictAdd(recs, game_id, sim_score) ==
    IF \E i \in DOMAIN recs : recs[i].game_id = game_id
    THEN [i \in DOMAIN recs |->
             IF recs[i].game_id = game_id
             THEN [game_id |-> game_id, score |-> recs[i].score + sim_score]
             ELSE recs[i]]
    ELSE Append(recs, [game_id |-> game_id, score |-> sim_score])

\* fault variant: the test against user_rated_games is left out
ScoreRowUnfiltered(recs, row, sim, rated) ==
    DictAdd(recs, row.game_id, sim * row.rating)

\* the body of the inner loop, for one row of top_games
ScoreRow(recs, row, sim, rated) ==
    IF row.game_id \notin rated
    THEN DictAdd(recs, row.game_id, sim * row.rating)
    ELSE recs

RECURSIVE ScoreGames(_, _, _, _)
\* for _, row in top_games.iterrows()
ScoreGames(rows, sim, rated, recs) ==
    IF rows = <<>> THEN recs
    ELSE ScoreGames(Tail(rows), sim, rated, ScoreRow(recs, Head(rows), sim, rated))

RECURSIVE ScoreNeighbors(_, _, _, _, _)
\* for similar_user in top_similar_users
ScoreNeighbors(df, target, neighbors, rated, recs) ==
    IF neighbors = <<>> THEN recs
    ELSE LET n == Head(neighbors)
         IN ScoreNeighbors(df, target, Tail(neighbors), rated,
                ScoreGames(TopGames(df, n), CosineSimilarity(df, target, n),
                           rated, recs))

\* the dict `recommendations` after the loops
Recommendations(df, target) ==
    ScoreNeighbors(df, target, TopSimilarUsers(df, target),
                   UserRatedGames(df, target), <<>>)

\* fault variant: reverse=True is left out
SortedByWeightAscending(recs) ==
    LET n == Len(recs)
        Before(i, j) ==
            recs[i].score < recs[j].score \/ (recs[i].score = recs[j].score /\ i < j)
    IN [p \in 1..n |->
           recs[CHOOSE i \in 1..n :
                    Cardinality({j \in 1..n : Before(j, i)}) = p - 1].game_id]

\* sorted(recommendations, key=recommendations.get, reverse=True): the keys by
\* score, descending; the sort is stable, so equal scores keep insertion order
SortedByWeight(recs) ==
    LET n == Len(recs)
        Before(i, j) ==
            recs[i].score > recs[j].score \/ (recs[i].score = recs[j].score /\ i < j)
    IN [p \in 1..n |->
           recs[CHOOSE i \in 1..n :
                    Cardinality({j \in 1..n : Before(j, i)}) = p - 1].game_id]

\* fault variant: the slice is left out
RecommendedGameIdsUnsliced(recs, num_recommendations) == SortedByWeight(recs)

\* fault variant: the slice stops one short
RecommendedGameIdsOffByOne(recs, num_recommendations) ==
    Slice(SortedByWeight(recs), num_recommendations - 1)

\* sorted(...)[:num_recommendations]
RecommendedGameIds(recs, num_recommendations) ==
    Slice(SortedByWeight(recs), num_recommendations)

\* the value returned, with the locals the properties speak of; raised names
\* the exception that ends the call, "" when it returns
GenerateRecommendations(df, target, num_recommendations) ==
    IF NotEnoughData(df, target)
    THEN [raised |-> "", cold |-> TRUE, neighbors |-> <<>>, recs |-> <<>>,
          ids |-> <<>>]
    ELSE IF target \notin PivotIndex(df)
    THEN [raised |-> "KeyError", cold |-> FALSE, neighbors |-> <<>>,
          recs |-> <<>>, ids |-> <<>>]
    ELSE LET recs == Recommendations(df, target)
         IN [raised |-> "", cold |-> FALSE,
             neighbors |-> TopSimilarUsers(df, target),
             recs |-> recs,
             ids |-> RecommendedGameIds(recs, num_recommendations)]

----------------------------------------------------------------------------
(* GET /games/discover/personalized *)

\* fault variant: .limit(limit) is left out
FallbackGamesUnlimited(catalog, limit) == SortedAsc(catalog)

\* fault variant: the rows come newest first
FallbackGamesDescending(catalog, limit) ==
    LET asc == SortedAsc(catalog)
    IN Slice([i \in DOMAIN asc |-> asc[Len(asc) + 1 - i]], limit)

\* select(Game).limit(limit): the first rows of the Game table, in id order
FallbackGames(catalog, limit) == Slice(SortedAsc(catalog), limit)

\* select(Game).where(Game.id.in_(game_ids)): the matching rows, in id order
GamesByIds(catalog, game_ids) == SortedAsc({g \in catalog : g \in Range(game_ids)})

NoResponse ==
    [status |-> 0, target |-> 0, limit |-> 0, path |-> "", cold |-> FALSE,
     neighbors |-> <<>>, recs |-> <<>>, ids |-> <<>>, games |-> <<>>]

\* the whole handler: the response, with the recommender's locals
GetPersonalizedGames(catalog, rs, current_user, limit) ==
    IF limit < 0
    THEN [NoResponse EXCEPT !.status = 400, !.target = current_user, !.limit = limit]
    ELSE LET r == GenerateRecommendations(FetchData(rs), current_user, limit)
             base == [NoResponse EXCEPT !.target = current_user, !.limit = limit,
                                        !.cold = r.cold, !.neighbors = r.neighbors,
                                        !.recs = r.recs, !.ids = r.ids]
         IN IF r.raised # ""
            THEN [base EXCEPT !.status = 500, !.path = r.raised]
            ELSE IF r.ids = <<>>
            THEN [base EXCEPT !.status = 200, !.path = "fallback",
                              !.games = FallbackGames(catalog, limit)]
            ELSE [base EXCEPT !.status = 200, !.path = "personalized",
                              !.games = GamesByIds(catalog, r.ids)]

----------------------------------------------------------------------------
(* The store and the requests *)

\* the Game table holds the lowest ids: ids are handed out in ascending order
\* and no handler deletes a game
Catalogs == {c \in SUBSET GameIds : \A g \in c : \A h \in GameIds : h < g => h \in c}

\* the Review rows a catalog admits: an existing user, an existing game
\* (create_review answers 404 otherwise) and a rating the request model accepts
ReviewRows(catalog) ==
    [user_id : Users, game_id : catalog, rating : Ratings]

\* Review tables of at most MaxReviews rows, in id order.  Two rows may share
\* (user_id, game_id): the table has no unique constraint and create_review
\* reads current_user.reviews before it awaits, so two interleaved requests
\* both insert.
ReviewTables(catalog) ==
    UNION {[1..n -> ReviewRows(catalog)] : n \in 0..MaxReviews}

\* the clients whose requests may be in flight together
Clients == {1, 2}

\* no reviews, interactions or social handler has answered yet
NoCall == [op |-> "", user |-> 0, arg |-> 0, status |-> 0, detail |-> ""]

\* a client with no create_review in flight
IdleCreate ==
    [pc |-> "idle", user |-> 0, game_id |-> 0, rating |-> 0, snapshot |-> {}]

\* a client with no personalized request in flight
IdleProc ==
    [pc |-> "idle", target |-> 0, limit |-> 0, df |-> <<>>, ids |-> <<>>,
     games |-> <<>>, status |-> 0]

\* nobody liked or followed, every account is public, nothing is in flight
QuietSocial ==
    /\ private = [u \in Users |-> FALSE]
    /\ likes = {}
    /\ follows = {}
    /\ pending = [c \in Clients |-> IdleCreate]
    /\ last = NoCall
    /\ procs = [c \in Clients |-> IdleProc]
    /\ comments = <<>>

Init ==
    /\ games \in Catalogs
    /\ reviews \in ReviewTables(games)
    /\ resp = NoResponse
    /\ QuietSocial

\* fault variant: the handler also clears the Like table
RequestClearingLikes(current_user, limit) ==
    /\ resp = NoResponse
    /\ resp' = GetPersonalizedGames(games, reviews, current_user, limit)
    /\ likes' = {}
    /\ UNCHANGED <<games, reviews, private, follows, pending, last, procs, comments>>

\* a client sends GET /games/discover/personalized?limit=k as current_user
Request(current_user, limit) ==
    /\ resp = NoResponse
    /\ resp' = GetPersonalizedGames(games, reviews, current_user, limit)
    /\ UNCHANGED <<store, pending, last, procs>>

\* the response is returned to the client
Respond ==
    /\ resp # NoResponse
    /\ resp' = NoResponse
    /\ UNCHANGED <<store, pending, last, procs>>

Next ==
    \/ \E u \in Users, k \in Limits : Request(u, k)
    \/ Respond

Spec == Init /\ [][Next]_vars

----------------------------------------------------------------------------
(* The concrete scenario: three users, games 100, 200 and 300 *)

\* the limit of the scenario's request
ScenarioLimit == 5

ScenarioRows ==
    {[user_id |-> 1, game_id |-> 100, rating |-> 10],
     [user_id |-> 2, game_id |-> 100, rating |-> 10],
     [user_id |-> 2, game_id |-> 200, rating |-> 9],
     [user_id |-> 3, game_id |-> 300, rating |-> 8]}

\* the Review table holds exactly the scenario's rows, in any order
InitScenario ==
    /\ games = {100, 200, 300}
    /\ reviews \in {t \in [1..Cardinality(ScenarioRows) -> ScenarioRows] :
                       Range(t) = ScenarioRows}
    /\ resp = NoResponse
    /\ QuietSocial

NextScenario ==
    \/ \E u \in Users, k \in 0..ScenarioLimit : Request(u, k)
    \/ Respond

SpecScenario == InitScenario /\ [][NextScenario]_vars

----------------------------------------------------------------------------
(* Stores for the ranking: user 1 has rated game 100 with 10; users 2, 3 and *)
(* 4 have each rated game 100 and, or not, games 200 and 300.                *)

\* what a neighbour rated: r100 for game 100, r200 and r300 for games 200 and
\* 300, -1 standing for no review
RankingProfiles == [r100 : {2, 10}, r200 : {-1, 6, 9}, r300 : {-1, 6, 9}]

\* the Review rows of user u with profile p, in game order
ProfileRows(u, p) ==
    LET Present(row) == row.rating >= 0
    IN SelectSeq(<<[user_id |-> u, game_id |-> 100, rating |-> p.r100],
                   [user_id |-> u, game_id |-> 200, rating |-> p.r200],
                   [user_id |-> u, game_id |-> 300, rating |-> p.r300]>>,
                 Present)

InitRanking ==
    /\ games = {100, 200, 300}
    /\ \E p2, p3, p4 \in RankingProfiles :
           reviews = <<[user_id |-> 1, game_id |-> 100, rating |-> 10]>>
                     \o ProfileRows(2, p2) \o ProfileRows(3, p3) \o ProfileRows(4, p4)
    /\ resp = NoResponse
    /\ QuietSocial

SpecRanking == InitRanking /\ [][Next]_vars

----------------------------------------------------------------------------
(* Stores with more than ten neighbours: user 1 has rated game 100 with 10;  *)
(* users 2 to 7 have rated game 100 with 10 and game 200 with 7; users 8 to  *)
(* 12 have rated game 100 with 5 and one more game.                          *)

\* the users of a crowded store
Crowd == 1..12

\* the second review of users 8 to 12
CrowdOptions ==
    {[game_id |-> 200, rating |-> 7],
     [game_id |-> 300, rating |-> 7],
     [game_id |-> 300, rating |-> 6]}

\* the Review table of a crowded store, in user order; f gives the second
\* review of each of the users 8 to 12
CrowdRows(f) ==
    [i \in 1..(2 * Cardinality(Crowd) - 1) |->
        LET u == (i \div 2) + 1
        IN IF i = 1 THEN [user_id |-> 1, game_id |-> 100, rating |-> 10]
           ELSE IF i % 2 = 0
           THEN [user_id |-> u, game_id |-> 100,
                 rating |-> IF u \in DOMAIN f THEN 5 ELSE 10]
           ELSE IF u \in DOMAIN f
           THEN [user_id |-> u, game_id |-> f[u].game_id, rating |-> f[u].rating]
           ELSE [user_id |-> u, game_id |-> 200, rating |-> 7]]

InitCrowd ==
    /\ games = {100, 200, 300}
    /\ \E f \in [8..12 -> CrowdOptions] : reviews = CrowdRows(f)
    /\ resp = NoResponse
    /\ QuietSocial

SpecCrowd == InitCrowd /\ [][Next]_vars

----------------------------------------------------------------------------
(* Concurrent personalized requests.  Every request has its own session      *)
(* (get_session), its own GameRecommendation and its own locals; the handler *)
(* is cut at its awaits: the read of the Review table, the scoring that      *)
(* follows it, and the read of the Game table.                               *)

\* fault variant: game_ids is kept in one place shared by every request
KeepIdsShared(ps, c, ids) ==
    [d \in DOMAIN ps |->
        IF d = c THEN [ps[d] EXCEPT !.pc = "hydrate", !.ids = ids]
        ELSE [ps[d] EXCEPT !.ids = ids]]

\* game_ids = await recommender.generate_recommendations(...): a local
KeepIds(ps, c, ids) == [ps EXCEPT ![c].pc = "hydrate", ![c].ids = ids]

\* client c sends the request as user u: the limit is checked
StartDiscover(c, u, limit) ==
    /\ procs[c].pc = "idle"
    /\ procs' = [procs EXCEPT ![c] =
                    IF limit < 0
                    THEN [IdleProc EXCEPT !.pc = "done", !.target = u,
                                          !.limit = limit, !.status = 400]
                    ELSE [IdleProc EXCEPT !.pc = "fetch", !.target = u,
                                          !.limit = limit]]
    /\ UNCHANGED <<store, resp, pending, last>>

\* _fetch_data: the Review table is read into the request's data frame
FetchReviews(c) ==
    /\ procs[c].pc = "fetch"
    /\ procs' = [procs EXCEPT ![c].pc = "score", ![c].df = FetchData(reviews)]
    /\ UNCHANGED <<store, resp, pending, last>>

\* the rest of generate_recommendations, on the request's data frame
ScoreCandidates(c) ==
    /\ procs[c].pc = "score"
    /\ LET r == GenerateRecommendations(procs[c].df, procs[c].target, procs[c].limit)
       IN procs' = IF r.raised # ""
                   THEN [procs EXCEPT ![c].pc = "done", ![c].status = 500]
                   ELSE KeepIds(procs, c, r.ids)
    /\ UNCHANGED <<store, resp, pending, last>>

\* the Game table is read: the fallback rows or the rows of game_ids
HydrateGames(c) ==
    /\ procs[c].pc = "hydrate"
    /\ procs' = [procs EXCEPT
                    ![c].pc = "done",
                    ![c].status = 200,
                    ![c].games = IF procs[c].ids = <<>>
                                 THEN FallbackGames(games, procs[c].limit)
                                 ELSE GamesByIds(games, procs[c].ids)]
    /\ UNCHANGED <<store, resp, pending, last>>

\* the response is returned to client c
ReturnGames(c) ==
    /\ procs[c].pc = "done"
    /\ procs' = [procs EXCEPT ![c] = IdleProc]
    /\ UNCHANGED <<store, resp, pending, last>>

NextConcurrent ==
    \/ \E c \in Clients, u \in Users, k \in Limits : StartDiscover(c, u, k)
    \/ \E c \in Clients : FetchReviews(c)
    \/ \E c \in Clients : ScoreCandidates(c)
    \/ \E c \in Clients : HydrateGames(c)
    \/ \E c \in Clients : ReturnGames(c)

\* the scenario's store, with the requests of two clients interleaved
SpecConcurrent == InitScenario /\ [][NextConcurrent]_vars

----------------------------------------------------------------------------
(* POST /reviews.  get_current_user loads the user and, with it, the user's  *)
(* reviews (the relationships load with the row); create_review then awaits  *)
(* the read of the Game row before it tests the loaded reviews and inserts.  *)
(* The handler is cut at that await.                                         *)

\* current_user.reviews as loaded: the games user u has a Review row for
UserReviewedGames(rs, u) ==
    {rs[i].game_id : i \in {j \in DOMAIN rs : rs[j].user_id = u}}

\* any(r.game_id == review_request.game_id for r in current_user.reviews)
AlreadyReviewed(snapshot, game_id) == game_id \in snapshot

\* the requests in flight that may still insert a row
InFlight == {c \in Clients : pending[c].pc = "loaded"}

\* client c posts a review as user u: get_current_user loads u
LoadCurrentUser(c, u, game_id, rating) ==
    /\ pending[c].pc = "idle"
    /\ Len(reviews) + Cardinality(InFlight) < MaxReviews
    /\ pending' = [pending EXCEPT ![c] =
                      [pc |-> "loaded", user |-> u, game_id |-> game_id,
                       rating |-> rating,
                       snapshot |-> UserReviewedGames(reviews, u)]]
    /\ UNCHANGED <<store, resp, last, procs>>

\* the body of create_review after the Game row has been read
CreateReview(c) ==
    /\ pending[c].pc = "loaded"
    /\ LET rq == pending[c]
           answer(st, d) ==
               [op |-> "create_review", user |-> rq.user, arg |-> rq.game_id,
                status |-> st, detail |-> d]
       IN IF rq.game_id \notin games
          THEN /\ last' = answer(404, "Game for this review not found")
               /\ reviews' = reviews
          ELSE IF AlreadyReviewed(rq.snapshot, rq.game_id)
          THEN /\ last' = answer(400, "You already have a review for this game")
               /\ reviews' = reviews
          ELSE /\ last' = answer(200, "")
               /\ reviews' = Append(reviews,
                                  [user_id |-> rq.user, game_id |-> rq.game_id,
                                   rating |-> rq.rating])
    /\ pending' = [pending EXCEPT ![c] = IdleCreate]
    /\ UNCHANGED <<games, private, likes, follows, resp, procs, comments>>

\* two games in the catalog, no review yet
InitReviews ==
    /\ games = {100, 200}
    /\ reviews = <<>>
    /\ resp = NoResponse
    /\ QuietSocial

NextReviews ==
    \/ \E c \in Clients, u \in Users, g \in GameIds, r \in Ratings :
           LoadCurrentUser(c, u, g, r)
    \/ \E c \in Clients : CreateReview(c)

SpecReviews == InitReviews /\ [][NextReviews]_vars

----------------------------------------------------------------------------
(* POST and DELETE /reviews/{review_id}/like *)

\* set(f.follower_id for f in target_user.followers), whatever the status
FollowerIds(fs, target_user) ==
    {f.follower_id : f \in {e \in fs : e.followed_id = target_user}}

\* _check_user_interaction_auth passes: the caller is the author, follows the
\* author, or the author is public
InteractionAllowed(fs, priv, current_user, target_user) ==
    ~(/\ current_user # target_user
      /\ current_user \notin FollowerIds(fs, target_user)
      /\ priv[target_user])

\* the rows of select(Like).where(Like.review_id == review_id and
\* Like.user_id == current_user.id).  Python evaluates `a and b` before the
\* query is built: bool(a) of an == clause compares its two operands'
\* identities, which is False for a column and a value, so the whole
\* expression is `a` and the query filters by review_id alone
ExistingLikes(ls, review_id, current_user) == {l \in ls : l[1] = review_id}

\* like_review, the whole handler
LikeReview(current_user, review_id) ==
    LET answer(st, d) ==
            [op |-> "like_review", user |-> current_user, arg |-> review_id,
             status |-> st, detail |-> d]
    IN /\ IF review_id \notin ReviewIds(reviews)
          THEN /\ last' = answer(404, "Review not found")
               /\ likes' = likes
          ELSE IF ~InteractionAllowed(follows, private, current_user,
                                      reviews[review_id].user_id)
          THEN /\ last' = answer(403, "You are not allowed to interact with this review")
               /\ likes' = likes
          ELSE IF ExistingLikes(likes, review_id, current_user) # {}
          THEN /\ last' = answer(400, "You have already liked this review")
               /\ likes' = likes
          ELSE /\ last' = answer(201, "")
               /\ likes' = likes \cup {<<review_id, current_user>>}
       /\ UNCHANGED <<games, reviews, private, follows, resp, pending, procs, comments>>

\* unlike_review, the whole handler; result.first() is whichever matching row
\* the database returns first
UnlikeReview(current_user, review_id) ==
    LET answer(st, d) ==
            [op |-> "unlike_review", user |-> current_user, arg |-> review_id,
             status |-> st, detail |-> d]
    IN /\ IF review_id \notin ReviewIds(reviews)
          THEN /\ last' = answer(404, "Review not found")
               /\ likes' = likes
          ELSE IF ~InteractionAllowed(follows, private, current_user,
                                      reviews[review_id].user_id)
          THEN /\ last' = answer(403, "You are not allowed to interact with this review")
               /\ likes' = likes
          ELSE IF ExistingLikes(likes, review_id, current_user) = {}
          THEN /\ last' = answer(400, "You have not liked this review")
               /\ likes' = likes
          ELSE /\ last' = answer(204, "")
               /\ \E existing_like \in ExistingLikes(likes, review_id, current_user) :
                      likes' = likes \ {existing_like}
       /\ UNCHANGED <<games, reviews, private, follows, resp, pending, procs, comments>>

\* two reviews, of users 1 and 2; user 3 has none
SeedReviews ==
    <<[user_id |-> 1, game_id |-> 100, rating |-> 7],
      [user_id |-> 2, game_id |-> 200, rating |-> 7]>>

\* the Follow row send_follow_request creates for user 3 following user 2
SeedFollow(priv) ==
    [followed_id |-> 2, follower_id |-> 3,
     status |-> IF priv[2] THEN "pending" ELSE "accepted"]

\* accounts of any privacy, user 3 following user 2 or not, no like yet
InitLikes ==
    /\ games = {100, 200, 300}
    /\ reviews = SeedReviews
    /\ resp = NoResponse
    /\ private \in [Users -> BOOLEAN]
    /\ likes = {}
    /\ follows \in {{}, {SeedFollow(private)}}
    /\ pending = [c \in Clients |-> IdleCreate]
    /\ last = NoCall
    /\ procs = [c \in Clients |-> IdleProc]
    /\ comments = <<>>

\* the review ids tried: those of the table and one past its end
NextLikes ==
    \/ \E u \in Users, r \in 1..(Len(reviews) + 1) : LikeReview(u, r)
    \/ \E u \in Users, r \in 1..(Len(reviews) + 1) : UnlikeReview(u, r)
    \/ \E u \in Users, k \in Limits : Request(u, k)
    \/ Respond

SpecLikes == InitLikes /\ [][NextLikes]_vars

----------------------------------------------------------------------------
(* POST /social/follow/{user_id}, /social/requests/{user_id}/accept and      *)
(* /social/requests/{user_id}/remove                                         *)

\* the user ids a request may name: the registered users and an id no user has
UserIds == Users \cup {4}

\* the Follow rows with the given follower and followed user
FollowOf(fs, follower, followed) ==
    {f \in fs : f.follower_id = follower /\ f.followed_id = followed}

\* the users a user follows or has asked to follow
FollowingIds(fs, user) ==
    {f.followed_id : f \in {e \in fs : e.follower_id = user}}

\* fault variant: the target's followers are not tested
AlreadyFollowingNever(fs, current_user, target_user) == FALSE

\* any(f.follower_id == current_user.id for f in target_user.followers)
AlreadyFollowing(fs, current_user, target_user) ==
    current_user \in FollowerIds(fs, target_user)

\* fault variant: every follow is accepted at once
FollowStatusAccepted(priv, target_user) == "accepted"

\* PENDING if target_user.private else ACCEPTED
FollowStatus(priv, target_user) ==
    IF priv[target_user] THEN "pending" ELSE "accepted"

\* send_follow_request, the whole handler
SendFollowRequest(current_user, user_id) ==
    LET answer(st, d) ==
            [op |-> "send_follow_request", user |-> current_user, arg |-> user_id,
             status |-> st, detail |-> d]
    IN /\ IF user_id = current_user
          THEN /\ last' = answer(400, "You cannot follow yourself")
               /\ follows' = follows
          ELSE IF user_id \notin Users
          THEN /\ last' = answer(404, "User not found")
               /\ follows' = follows
          ELSE IF AlreadyFollowing(follows, current_user, user_id)
          THEN /\ last' = answer(400, "You are already following this user")
               /\ follows' = follows
          ELSE /\ last' = answer(200, "")
               /\ follows' = follows \cup
                      {[followed_id |-> user_id, follower_id |-> current_user,
                        status |-> FollowStatus(private, user_id)]}
       /\ UNCHANGED <<games, reviews, private, likes, resp, pending, procs, comments>>

\* fault variant: a follower is approved whatever its status
ApprovableAny(follower) == TRUE

\* follower.status == PENDING
Approvable(follower) == follower.status = "pending"

\* approve_follow_request, the whole handler; the loop stops at the first
\* follower of current_user whose follower_id is user_id
ApproveFollowRequest(current_user, user_id) ==
    LET answer(st, d) ==
            [op |-> "approve_follow_request", user |-> current_user,
             arg |-> user_id, status |-> st, detail |-> d]
        found == FollowOf(follows, user_id, current_user)
    IN /\ IF user_id = current_user
          THEN /\ last' = answer(400, "You cannot approve yourself")
               /\ follows' = follows
          ELSE IF user_id \notin Users
          THEN /\ last' = answer(404, "User not found")
               /\ follows' = follows
          ELSE IF found = {}
          THEN /\ last' = answer(400, "This user does not follow you")
               /\ follows' = follows
          ELSE \E follower \in found :
                   IF ~Approvable(follower)
                   THEN /\ last' = answer(400, "This follow request is not pending")
                        /\ follows' = follows
                   ELSE /\ last' = answer(200, "")
                        /\ follows' = (follows \ {follower}) \cup
                               {[follower EXCEPT !.status = "accepted"]}
       /\ UNCHANGED <<games, reviews, private, likes, resp, pending, procs, comments>>

\* fault variant: only a pending follower is removed
RemovableIfPending(follower) == follower.status = "pending"

\* reject_follow_request deletes the follower it finds, whatever its status
Removable(follower) == TRUE

\* reject_follow_request, the whole handler
RejectFollowRequest(current_user, user_id) ==
    LET answer(st, d) ==
            [op |-> "reject_follow_request", user |-> current_user,
             arg |-> user_id, status |-> st, detail |-> d]
        found == {f \in FollowOf(follows, user_id, current_user) : Removable(f)}
    IN /\ IF user_id = current_user
          THEN /\ last' = answer(400, "You cannot approve yourself")
               /\ follows' = follows
          ELSE IF user_id \notin Users
          THEN /\ last' = answer(404, "User not found")
               /\ follows' = follows
          ELSE IF found = {}
          THEN /\ last' = answer(400, "This user does not follow you")
               /\ follows' = follows
          ELSE \E follower \in found :
                   /\ last' = answer(200, "")
                   /\ follows' = follows \ {follower}
       /\ UNCHANGED <<games, reviews, private, likes, resp, pending, procs, comments>>

\* accounts of any privacy, nobody follows anybody
InitFollows ==
    /\ games = {100, 200, 300}
    /\ reviews = SeedReviews
    /\ resp = NoResponse
    /\ private \in [Users -> BOOLEAN]
    /\ likes = {}
    /\ follows = {}
    /\ pending = [c \in Clients |-> IdleCreate]
    /\ last = NoCall
    /\ procs = [c \in Clients |-> IdleProc]
    /\ comments = <<>>

NextFollows ==
    \/ \E c \in Users, u \in UserIds : SendFollowRequest(c, u)
    \/ \E c \in Users, u \in UserIds : ApproveFollowRequest(c, u)
    \/ \E c \in Users, u \in UserIds : RejectFollowRequest(c, u)

SpecFollows == InitFollows /\ [][NextFollows]_vars

----------------------------------------------------------------------------
(* GET /feed                                                                 *)

\* a response that carries a body
AnswerWith(op, user, arg, st, body) ==
    [op |-> op, user |-> user, arg |-> arg, status |-> st, detail |-> "",
     body |-> body]

\* len(review.likes)
LikeCount(ls, review_id) == Cardinality({l \in ls : l[1] = review_id})

\* what is left at the position of a deleted Comment row
DeletedComment ==
    [review_id |-> 0, user_id |-> 0, parent_comment_id |-> 0, text |-> "",
     updated_at |-> 0]

\* the ids of the rows select(Comment) finds
CommentIds(cs) == {i \in DOMAIN cs : cs[i] # DeletedComment}

\* review.comments: the ids of the comments of a review
CommentsOf(cs, review_id) == {i \in CommentIds(cs) : cs[i].review_id = review_id}

\* the item get_feed and get_review build for a review
ReviewItem(rs, ls, cs, current_user, review_id) ==
    [review_id |-> review_id,
     user_id |-> rs[review_id].user_id,
     like_count |-> LikeCount(ls, review_id),
     comment_count |-> Cardinality(CommentsOf(cs, review_id)),
     user_has_liked |-> <<review_id, current_user>> \in ls]

\* where(Review.user_id.in_(ids)).order_by(Review.created_at.desc()): rows
\* are created in id order, so the newest row has the largest id
ReviewsNewestFirst(rs, ids) ==
    LET asc == SortedAsc({i \in ReviewIds(rs) : rs[i].user_id \in ids})
    IN [k \in DOMAIN asc |-> asc[Len(asc) + 1 - k]]

\* .offset(skip)
Offset(s, skip) == SubSeq(s, skip + 1, Len(s))

\* the skips tried; Query(ge=0) refuses a negative one before the handler runs
Skips == 0..MaxSkip

\* the limits tried; Query(ge=1, le=100) refuses the others
FeedLimits == 1..MaxLimit

\* get_feed, the whole handler.  current_user.following holds the Follow rows
\* whose follower is the caller, whatever their status
GetFeed(current_user, skip, limit) ==
    LET user_ids_to_fetch == FollowingIds(follows, current_user)
        ids == IF user_ids_to_fetch = {}
               THEN <<>>
               ELSE Slice(Offset(ReviewsNewestFirst(reviews, user_ids_to_fetch),
                                 skip), limit)
        items == [k \in DOMAIN ids |->
                     ReviewItem(reviews, likes, comments, current_user, ids[k])]
    IN /\ last' = [op |-> "get_feed", user |-> current_user, arg |-> 0,
                   status |-> 200, detail |-> "", skip |-> skip,
                   limit |-> limit, body |-> items]
       /\ UNCHANGED <<store, resp, pending, procs>>

\* the Review tables of the feed: reviews of games 100 and 200, at most one
\* per user and game
FeedTables ==
    {t \in UNION {[1..n -> [user_id : Users, game_id : {100, 200}, rating : {7}]] :
                     n \in 0..MaxReviews} :
        \A i, j \in DOMAIN t :
            (t[i].user_id = t[j].user_id /\ t[i].game_id = t[j].game_id) => i = j}

\* accounts of any privacy, nobody follows anybody
InitFeed ==
    /\ games = {100, 200, 300}
    /\ reviews \in FeedTables
    /\ resp = NoResponse
    /\ private \in [Users -> BOOLEAN]
    /\ likes = {}
    /\ follows = {}
    /\ pending = [c \in Clients |-> IdleCreate]
    /\ last = NoCall
    /\ procs = [c \in Clients |-> IdleProc]
    /\ comments = <<>>

\* user 3 asks to follow, users 1 and 2 approve, user 3 reads the feed
NextFeed ==
    \/ \E u \in Users : SendFollowRequest(3, u)
    \/ \E c \in Users : ApproveFollowRequest(c, 3)
    \/ \E skip \in Skips, limit \in FeedLimits : GetFeed(3, skip, limit)

SpecFeed == InitFeed /\ [][NextFeed]_vars

----------------------------------------------------------------------------
(* GET /reviews/{review_id}, GET /reviews/{review_id}/likes and the comments *)
(* of a review                                                               *)

\* f == current_user.id for a Follow row f of target_user.followers: a row is
\* never equal to an int
FollowRowIsId(f, user_id) == FALSE

\* current_user.id in target_user.followers (reviews.py)
InFollowers(fs, target_user, user_id) ==
    \E f \in {e \in fs : e.followed_id = target_user} : FollowRowIsId(f, user_id)

\* _check_user_interaction_auth of reviews.py passes
ReviewAllowed(fs, priv, current_user, target_review) ==
    ~(/\ current_user # target_review.user_id
      /\ ~InFollowers(fs, target_review.user_id, current_user)
      /\ priv[target_review.user_id])

Answer(op, user, arg, st, d) ==
    [op |-> op, user |-> user, arg |-> arg, status |-> st, detail |-> d]

Forbidden == "You are not allowed to interact with this review"

\* get_review, the whole handler
GetReview(current_user, review_id) ==
    /\ last' =
          IF review_id \notin ReviewIds(reviews)
          THEN Answer("get_review", current_user, review_id, 404, "Review not found")
          ELSE IF ~ReviewAllowed(follows, private, current_user, reviews[review_id])
          THEN Answer("get_review", current_user, review_id, 403, Forbidden)
          ELSE AnswerWith("get_review", current_user, review_id, 200,
                          ReviewItem(reviews, likes, comments, current_user,
                                     review_id))
    /\ UNCHANGED <<store, resp, pending, procs>>

\* get_review_likes, the whole handler
GetReviewLikes(current_user, review_id) ==
    /\ last' =
          IF review_id \notin ReviewIds(reviews)
          THEN Answer("get_review_likes", current_user, review_id, 404,
                      "Review not found")
          ELSE IF ~InteractionAllowed(follows, private, current_user,
                                      reviews[review_id].user_id)
          THEN Answer("get_review_likes", current_user, review_id, 403, Forbidden)
          ELSE AnswerWith("get_review_likes", current_user, review_id, 200,
                          {l \in likes : l[1] = review_id})
    /\ UNCHANGED <<store, resp, pending, procs>>

\* create_comment, the whole handler; parent_comment_id 0 stands for a request
\* without one (0 and None are both falsy).  The Comment table holds at most
\* MaxComments rows.
CreateComment(current_user, review_id, parent_comment_id, text) ==
    LET answer(st, d) == Answer("create_comment", current_user, review_id, st, d)
        comment == [review_id |-> review_id, user_id |-> current_user,
                    parent_comment_id |-> parent_comment_id, text |-> text,
                    updated_at |-> 0]
    IN /\ Len(comments) < MaxComments
       /\ IF review_id \notin ReviewIds(reviews)
          THEN /\ last' = answer(404, "Review not found")
               /\ comments' = comments
          ELSE IF ~InteractionAllowed(follows, private, current_user,
                                      reviews[review_id].user_id)
          THEN /\ last' = answer(403, Forbidden)
               /\ comments' = comments
          ELSE IF parent_comment_id # 0 /\ parent_comment_id \notin CommentIds(comments)
          THEN /\ last' = answer(404, "Parent comment not found")
               /\ comments' = comments
          ELSE IF /\ parent_comment_id # 0
                  /\ comments[parent_comment_id].review_id # review_id
          THEN /\ last' = answer(400, "Parent comment does not belong to this review")
               /\ comments' = comments
          ELSE /\ last' = AnswerWith("create_comment", current_user, review_id,
                                     201, Len(comments) + 1)
               /\ comments' = Append(comments, comment)
       /\ UNCHANGED <<games, reviews, private, likes, follows, resp, pending, procs>>

\* get_review_comments, the whole handler
GetReviewComments(current_user, review_id) ==
    /\ last' =
          IF review_id \notin ReviewIds(reviews)
          THEN Answer("get_review_comments", current_user, review_id, 404,
                      "Review not found")
          ELSE IF ~InteractionAllowed(follows, private, current_user,
                                      reviews[review_id].user_id)
          THEN Answer("get_review_comments", current_user, review_id, 403,
                      Forbidden)
          ELSE AnswerWith("get_review_comments", current_user, review_id, 200,
                          CommentsOf(comments, review_id))
    /\ UNCHANGED <<store, resp, pending, procs>>

\* user 2 is private or public; nobody follows, likes or has commented
InitVisibility ==
    /\ games = {100, 200, 300}
    /\ reviews = SeedReviews
    /\ resp = NoResponse
    /\ private \in {[u \in Users |-> FALSE], [u \in Users |-> u = 2]}
    /\ likes = {}
    /\ follows = {}
    /\ pending = [c \in Clients |-> IdleCreate]
    /\ last = NoCall
    /\ procs = [c \in Clients |-> IdleProc]
    /\ comments = <<>>

\* user 3 asks to follow user 2, who approves or not; users 1, 2 and 3 read,
\* like and comment on review 2, the review of user 2
NextVisibility ==
    \/ SendFollowRequest(3, 2)
    \/ ApproveFollowRequest(2, 3)
    \/ \E u \in Users : GetReview(u, 2)
    \/ \E u \in Users : LikeReview(u, 2)
    \/ \E u \in Users : UnlikeReview(u, 2)
    \/ \E u \in Users : GetReviewLikes(u, 2)
    \/ \E u \in Users, parent \in 0..1 : CreateComment(u, 2, parent, "first")
    \/ \E u \in Users : GetReviewComments(u, 2)

SpecVisibility == InitVisibility /\ [][NextVisibility]_vars

----------------------------------------------------------------------------
(* PUT and DELETE /comments/{comment_id}, DELETE /reviews/{review_id}        *)

\* update_comment, the whole handler; updated_at 0 stands for None and 1 for
\* the time of an update
UpdateComment(current_user, comment_id, text) ==
    LET answer(st, d) == Answer("update_comment", current_user, comment_id, st, d)
    IN /\ IF comment_id \notin CommentIds(comments)
          THEN /\ last' = answer(404, "Comment not found")
               /\ comments' = comments
          ELSE IF comments[comment_id].user_id # current_user
          THEN /\ last' = answer(401, "You are not authorized to edit this comment")
               /\ comments' = comments
          ELSE /\ comments' = [comments EXCEPT ![comment_id].text = text,
                                               ![comment_id].updated_at = 1]
               /\ last' = AnswerWith("update_comment", current_user, comment_id,
                                     200, comments'[comment_id])
       /\ UNCHANGED <<games, reviews, private, likes, follows, resp, pending, procs>>

\* session.delete of a Comment: Comment.replies has no delete cascade, so the
\* unit of work sets parent_comment_id of the loaded replies to NULL before
\* it deletes the row
WithoutComment(cs, comment_id) ==
    [i \in DOMAIN cs |->
        IF i = comment_id THEN DeletedComment
        ELSE IF cs[i].parent_comment_id = comment_id
        THEN [cs[i] EXCEPT !.parent_comment_id = 0]
        ELSE cs[i]]

\* delete_comment, the whole handler
DeleteComment(current_user, comment_id) ==
    LET answer(st, d) == Answer("delete_comment", current_user, comment_id, st, d)
    IN /\ IF comment_id \notin CommentIds(comments)
          THEN /\ last' = answer(404, "Comment not found")
               /\ comments' = comments
          ELSE IF comments[comment_id].user_id # current_user
          THEN /\ last' = answer(401, "You are not authorized to delete this comment")
               /\ comments' = comments
          ELSE /\ last' = answer(204, "")
               /\ comments' = WithoutComment(comments, comment_id)
       /\ UNCHANGED <<games, reviews, private, likes, follows, resp, pending, procs>>

\* session.delete of a Review: Review.likes and Review.comments have no delete
\* cascade, so the unit of work sets review_id of the loaded likes and
\* comments to NULL.  Like.review_id is a primary-key column and
\* Comment.review_id is NOT NULL: the flush raises and nothing is written.
DeleteRaises(ls, cs, review_id) ==
    LikeCount(ls, review_id) > 0 \/ CommentsOf(cs, review_id) # {}

\* delete_review, the whole handler
DeleteReview(current_user, review_id) ==
    LET answer(st, d) == Answer("delete_review", current_user, review_id, st, d)
    IN /\ IF review_id \notin ReviewIds(reviews)
          THEN /\ last' = answer(404, "Review not found")
               /\ reviews' = reviews
          ELSE IF reviews[review_id].user_id # current_user
          THEN /\ last' = answer(401, "You are not authorized to perform this action")
               /\ reviews' = reviews
          ELSE IF DeleteRaises(likes, comments, review_id)
          THEN /\ last' = answer(500, "Internal Server Error")
               /\ reviews' = reviews
          ELSE /\ last' = answer(204, "")
               /\ reviews' = [reviews EXCEPT ![review_id] = DeletedReview]
       /\ UNCHANGED <<games, private, likes, follows, comments, resp, pending, procs>>

\* every account is public; nobody likes or has commented
InitOwnership ==
    /\ games = {100, 200, 300}
    /\ reviews = SeedReviews
    /\ resp = NoResponse
    /\ private = [u \in Users |-> FALSE]
    /\ likes = {}
    /\ follows = {}
    /\ pending = [c \in Clients |-> IdleCreate]
    /\ last = NoCall
    /\ procs = [c \in Clients |-> IdleProc]
    /\ comments = <<>>

\* users 1 and 2 like, comment, edit and delete; the comment ids and review
\* ids tried are those of the tables and one past their end
NextOwnership ==
    \/ \E u \in {1, 2}, r \in 1..Len(reviews) : LikeReview(u, r)
    \/ \E u \in {1, 2}, r \in 1..Len(reviews), parent \in 0..Len(comments) :
           CreateComment(u, r, parent, "first")
    \/ \E u \in {1, 2}, c \in 1..(Len(comments) + 1) : UpdateComment(u, c, "edited")
    \/ \E u \in {1, 2}, c \in 1..(Len(comments) + 1) : DeleteComment(u, c)
    \/ \E u \in {1, 2}, r \in 1..(Len(reviews) + 1) : DeleteReview(u, r)

SpecOwnership == InitOwnership /\ [][NextOwnership]_vars

----------------------------------------------------------------------------
(* Properties *)

\* the games user u has a Review row for
RatedBy(u) == {reviews[i].game_id : i \in {j \in DOMAIN reviews : reviews[j].user_id = u}}

\* the rows of reviews a neighbour of the answered request liked (rating >= 7.0)
LikedByNeighbor ==
    {i \in DOMAIN reviews : /\ reviews[i].user_id \in Range(resp.neighbors)
                             /\ reviews[i].rating >= LikeThreshold}

NoRepeats(s) == \A i, j \in DOMAIN s : s[i] = s[j] => i = j

\* a request with a valid limit has been answered
Answered == resp.status # 0 /\ resp.limit >= 0

\* C1: the list a personalized request returns is never longer than its
\* limit: neither the ids generate_recommendations returns nor the games the
\* endpoint returns, on the personalized and on the fallback path
BoundedOutput ==
    resp.status = 200 =>
        /\ Len(resp.ids) <= resp.limit
        /\ Len(resp.games) <= resp.limit

\* C1 witness: the recommender scored more candidates than the limit allows
BoundedOutputWitness ==
    /\ resp.status = 200
    /\ resp.path = "personalized"
    /\ Len(resp.recs) > resp.limit
    /\ Len(resp.ids) = resp.limit

\* C2 as stated: no game of the returned list, whether it came from neighbour
\* scoring or from the fallback, is a game the target has a review for
EligibleOnEveryPath ==
    resp.status = 200 =>
        /\ Range(resp.ids) \cap RatedBy(resp.target) = {}
        /\ Range(resp.games) \cap RatedBy(resp.target) = {}

\* C2 amended: the ids generate_recommendations returns, and the games the
\* endpoint returns on the personalized path, are never games the target has
\* a review for (the fallback list is the head of the catalog, rated or not)
EligibleWhenPersonalized ==
    resp.status = 200 =>
        /\ Range(resp.ids) \cap RatedBy(resp.target) = {}
        /\ resp.path = "personalized" =>
               Range(resp.games) \cap RatedBy(resp.target) = {}

\* C2 witness: a neighbour liked a game the target has rated, and the
\* personalized path answered
EligibleWitness ==
    /\ resp.status = 200
    /\ resp.path = "personalized"
    /\ \E i \in LikedByNeighbor : reviews[i].game_id \in RatedBy(resp.target)

\* C3 as stated: in the scenario, recommend(1, 5) returns exactly [200]
ScenarioReturnsOnly200 ==
    (resp.status = 200 /\ resp.target = 1 /\ resp.limit = ScenarioLimit) =>
        resp.ids = <<200>>

\* C3 amended: in the scenario, recommend(1, 5) returns exactly [200, 300];
\* game 300, liked only by the zero-similarity neighbour 3, is scored 0 and
\* comes after game 200, whose score is positive
ScenarioReturns200Then300 ==
    (resp.status = 200 /\ resp.target = 1 /\ resp.limit = ScenarioLimit) =>
        /\ resp.ids = <<200, 300>>
        /\ \E i, j \in DOMAIN resp.recs :
               /\ resp.recs[i].game_id = 200 /\ resp.recs[i].score > 0
               /\ resp.recs[j].game_id = 300 /\ resp.recs[j].score = 0

\* C3 witness: the scenario's request has been answered
ScenarioWitness ==
    /\ resp.status = 200 /\ resp.target = 1 /\ resp.limit = ScenarioLimit
    /\ Range(reviews) = ScenarioRows

\* C4: for a target with no review and a non-empty catalog of C games, the
\* request returns exactly min(k, C) distinct games of the catalog, the same
\* list as over a store from which every review has been removed
ColdStartFallback ==
    (Answered /\ RatedBy(resp.target) = {} /\ games # {}) =>
        /\ resp.status = 200
        /\ Len(resp.games) = Min(resp.limit, Cardinality(games))
        /\ NoRepeats(resp.games)
        /\ Range(resp.games) \subseteq games
        /\ resp.games =
               GetPersonalizedGames(games, <<>>, resp.target, resp.limit).games

\* C4 witness: a cold-start target is answered while another user has liked a
\* game, with a limit below the size of the catalog
ColdStartWitness ==
    /\ resp.status = 200
    /\ RatedBy(resp.target) = {}
    /\ \E i \in DOMAIN reviews : reviews[i].rating >= LikeThreshold
    /\ 0 < resp.limit /\ resp.limit < Cardinality(games)

EmptyIffNothingToReturn ==
    resp.status = 200 =>
        /\ resp.path = "fallback" => (resp.games = <<>> <=> games = {})
        /\ resp.path = "personalized" => (resp.games = <<>> <=> resp.recs = <<>>)
        /\ ~resp.cold => (resp.ids = <<>> <=> resp.recs = <<>>)

\* C6 amended: the same for every limit >= 1 (a limit of 0 returns an empty
\* list whatever the catalog and the candidates are)
EmptyIffNothingToReturnPositiveLimit ==
    (resp.status = 200 /\ resp.limit >= 1) =>
        /\ resp.path = "fallback" => (resp.games = <<>> <=> games = {})
        /\ resp.path = "personalized" => (resp.games = <<>> <=> resp.recs = <<>>)
        /\ ~resp.cold => (resp.ids = <<>> <=> resp.recs = <<>>)

\* C6 witness: the target has reviews and neighbours, no candidate was scored,
\* and the fallback returned games
EmptyIffWitness ==
    /\ resp.status = 200 /\ resp.limit >= 1
    /\ ~resp.cold /\ resp.neighbors # <<>> /\ resp.recs = <<>>
    /\ resp.path = "fallback" /\ resp.games # <<>>

\* C7: the returned lists hold no game id twice, also when several neighbours
\* like the same game and when one user has two rows for the same game
NoDuplicateIds ==
    resp.status = 200 => NoRepeats(resp.ids) /\ NoRepeats(resp.games)

\* C7 witness: one neighbour has two liked rows for the same unrated game, and
\* the personalized path answered with that game
NoDuplicateIdsWitness ==
    /\ resp.status = 200 /\ resp.path = "personalized" /\ resp.limit >= 2
    /\ \E i, j \in LikedByNeighbor :
           /\ i < j
           /\ reviews[i].user_id = reviews[j].user_id
           /\ reviews[i].game_id = reviews[j].game_id
           /\ reviews[i].game_id \in Range(resp.ids)

\* C9: the neighbours selected for a target never include the target
SelfExcluded ==
    resp.status = 200 => resp.target \notin Range(resp.neighbors)

\* C9 witness: neighbours were ranked for a target that has a liked row of
\* its own
SelfExcludedWitness ==
    /\ resp.status = 200 /\ ~resp.cold /\ resp.neighbors # <<>>
    /\ \E i \in DOMAIN reviews :
           reviews[i].user_id = resp.target /\ reviews[i].rating >= LikeThreshold

\* C10: for all users a, b with a row in the rating matrix, sim(a, b) equals
\* sim(b, a), and the similarity is 0 when either row is all zeros
SimilaritySymmetric ==
    LET df == FetchData(reviews)
    IN \A a, b \in PivotIndex(df) :
           /\ CosineSimilarity(df, a, b) = CosineSimilarity(df, b, a)
           /\ (\A i \in DOMAIN df : df[i].user_id \in {a, b} => df[i].rating = 0)
                  => CosineSimilarity(df, a, b) = 0
           /\ (\A i \in DOMAIN df : df[i].user_id = a => df[i].rating = 0)
                  => CosineSimilarity(df, a, b) = 0

\* C10 witness: a request was answered over a matrix in which two rows of
\* different norms have a similarity strictly between 0 and 1
SimilaritySymmetricWitness ==
    LET df == FetchData(reviews)
    IN /\ resp.status = 200 /\ ~resp.cold
       /\ \E a, b \in PivotIndex(df) :
              /\ Dot(MatrixRow(df, a), MatrixRow(df, a))
                     # Dot(MatrixRow(df, b), MatrixRow(df, b))
              /\ CosineSimilarity(df, a, b) > 0
              /\ CosineSimilarity(df, a, b) < Scale

\* C11: on the personalized (non-fallback) path, every game of the list
\* generate_recommendations returns and of the list the endpoint returns has
\* a row rated >= 7.0 by one of the selected neighbours, of which there are
\* at most 10; a game no selected neighbour rated >= 7.0 is never returned
LikedByASelectedNeighbor ==
    (resp.status = 200 /\ resp.path = "personalized") =>
        /\ Len(resp.neighbors) <= TopNeighbors
        /\ \A g \in Range(resp.ids) \cup Range(resp.games) :
               \E i \in LikedByNeighbor : reviews[i].game_id = g

\* C11 witness: the personalized path answered while a selected neighbour has
\* a row below 7.0 for a game the target has not rated, and no selected
\* neighbour liked that game
LikedByASelectedNeighborWitness ==
    /\ resp.status = 200 /\ resp.path = "personalized"
    /\ \E i \in DOMAIN reviews :
           /\ reviews[i].user_id \in Range(resp.neighbors)
           /\ reviews[i].rating < LikeThreshold
           /\ reviews[i].game_id \notin RatedBy(resp.target)
           /\ \A j \in LikedByNeighbor : reviews[j].game_id # reviews[i].game_id

\* C12: over unchanged data, a request whose steps interleave in any order
\* with those of another request (for the same or another target) answers
\* what the handler answers when run alone, and a step of one request never
\* changes the locals of another
ConcurrentRequestsIndependent ==
    /\ [](\A c \in Clients :
             procs[c].pc = "done" =>
                 LET alone == GetPersonalizedGames(games, reviews,
                                                   procs[c].target, procs[c].limit)
                 IN /\ procs[c].status = alone.status
                    /\ procs[c].ids = alone.ids
                    /\ procs[c].games = alone.games)
    /\ [][\A c, d \in Clients :
              (c # d /\ procs'[c] # procs[c]) => procs'[d] = procs[d]]_vars

\* C12 witness: one request has answered on the personalized path while the
\* request of another target, with other ids, is between its two reads
ConcurrentRequestsWitness ==
    \E c, d \in Clients :
        /\ procs[c].pc = "done" /\ procs[c].status = 200 /\ procs[c].ids # <<>>
        /\ procs[d].pc = "hydrate"
        /\ procs[d].target # procs[c].target
        /\ procs[d].ids # procs[c].ids

\* C13: a personalized request leaves the store unchanged: the Review, Game,
\* User, Follow and Like tables after the request are those before it, on the
\* personalized path and on the fallback path
RequestLeavesStoreUnchanged ==
    [][(resp' # resp /\ resp'.status # 0) => UNCHANGED store]_vars

\* C13 witness: a request has been answered on the personalized path over a
\* store that holds reviews, a like, a follow and a private account
RequestLeavesStoreUnchangedWitness ==
    /\ resp.status = 200 /\ resp.path = "personalized"
    /\ reviews # <<>> /\ likes # {} /\ follows # {}
    /\ \E u \in Users : private[u]

\* C14 as stated: after any create_review requests, interleaved or not, no
\* user has two reviews of one game, and a create_review for a game its user
\* already has a review of answers 400 and leaves the reviews unchanged
OneReviewPerUserAndGame ==
    /\ [](\A i, j \in DOMAIN reviews :
             (reviews[i].user_id = reviews[j].user_id
              /\ reviews[i].game_id = reviews[j].game_id) => i = j)
    /\ [][\A c \in Clients :
              (/\ pending[c].pc = "loaded"
               /\ pending'[c].pc = "idle"
               /\ pending[c].game_id \in UserReviewedGames(reviews, pending[c].user))
              => (last'.status = 400 /\ reviews' = reviews)]_vars

\* C15 as stated: a like_review by an authorized user U on an existing review
\* R creates exactly the Like (R, U) and answers 201 when U has no like on R,
\* whatever likes other users have on R, and answers 400 with the likes
\* unchanged when U has one
LikeCreatesExactlyOne ==
    [][(last' # last /\ last'.op = "like_review" /\ last'.status \in {201, 400}) =>
           LET like == <<last'.arg, last'.user>>
           IN IF like \notin likes
              THEN last'.status = 201 /\ likes' = likes \cup {like}
              ELSE last'.status = 400 /\ likes' = likes]_vars

\* C16 as stated: an unlike_review by an authorized user U on an existing
\* review R deletes exactly the Like (R, U) and answers 204 when U has a like
\* on R, and answers 400 with nothing deleted when U has none; the likes of
\* the other users are unchanged either way
UnlikeDeletesOwnLikeOnly ==
    [][(last' # last /\ last'.op = "unlike_review" /\ last'.status \in {204, 400}) =>
           LET like == <<last'.arg, last'.user>>
           IN IF like \in likes
              THEN last'.status = 204 /\ likes' = likes \ {like}
              ELSE last'.status = 400 /\ likes' = likes]_vars

\* the last step was a call of handler op that changed the last response
Called(op) == last' # last /\ last'.op = op

\* C17: send_follow_request by A to an existing user B # A with no Follow
\* (A -> B) creates exactly one Follow row, follower A and followed B, PENDING
\* if B is private and ACCEPTED otherwise; afterwards B's followers contain A
\* and A's following contain B
FollowCreatesOneRecord ==
    [][\A a, b \in Users :
          (/\ Called("send_follow_request")
           /\ last'.user = a /\ last'.arg = b
           /\ a # b /\ FollowOf(follows, a, b) = {})
          => /\ last'.status = 200
             /\ follows' = follows \cup
                    {[followed_id |-> b, follower_id |-> a,
                      status |-> IF private[b] THEN "pending" ELSE "accepted"]}
             /\ Cardinality(follows') = Cardinality(follows) + 1
             /\ a \in FollowerIds(follows', b)
             /\ b \in FollowingIds(follows', a)]_vars

\* C17 witness: a follow request to a private user has been answered 200
\* while that user already had another follower
FollowCreatesOneRecordWitness ==
    /\ last.op = "send_follow_request" /\ last.status = 200
    /\ private[last.arg]
    /\ FollowOf(follows, last.user, last.arg) # {}
    /\ \E f \in follows : f.followed_id = last.arg /\ f.follower_id # last.user

\* C18: after any follow, accept and remove requests no Follow row has
\* follower = followed and no ordered pair has two rows; a follow request to
\* oneself (400), to a missing user (404) or repeating a follow (400)
\* leaves the Follow rows unchanged
FollowsWellFormed ==
    /\ [](\A f, g \in follows :
             /\ f.follower_id # f.followed_id
             /\ (f.follower_id = g.follower_id /\ f.followed_id = g.followed_id)
                    => f = g)
    /\ [][Called("send_follow_request") =>
              LET a == last'.user
                  b == last'.arg
              IN /\ a = b => last'.status = 400
                 /\ b \notin Users => last'.status = 404
                 /\ FollowOf(follows, a, b) # {} => last'.status = 400
                 /\ last'.status \in {400, 404} => follows' = follows]_vars

\* C18 witness: a follow request repeating an accepted follow of a private
\* user has been answered 400
FollowsWellFormedWitness ==
    /\ last.op = "send_follow_request" /\ last.status = 400
    /\ last.arg \in Users /\ last.arg # last.user /\ private[last.arg]
    /\ \E f \in FollowOf(follows, last.user, last.arg) : f.status = "accepted"

\* no Follow row goes from ACCEPTED back to PENDING in a step
NeverBackToPending ==
    \A f \in follows :
        f.status = "accepted" => [f EXCEPT !.status = "pending"] \notin follows'

\* C19 as stated: approve_follow_request(user_id) by C turns a PENDING Follow
\* (user_id -> C) into ACCEPTED and changes no other row; answers 400 'This
\* follow request is not pending' with the status unchanged when the row is
\* not PENDING; answers 400 with nothing changed when there is no such row;
\* and no row ever goes from ACCEPTED back to PENDING
ApproveOnlyPending ==
    [][/\ NeverBackToPending
       /\ Called("approve_follow_request") =>
              LET found == FollowOf(follows, last'.arg, last'.user)
              IN IF found = {}
                 THEN last'.status = 400 /\ follows' = follows
                 ELSE \A f \in found :
                          IF f.status = "pending"
                          THEN /\ last'.status = 200
                               /\ follows' = (follows \ {f}) \cup
                                      {[f EXCEPT !.status = "accepted"]}
                          ELSE /\ last'.status = 400
                               /\ last'.detail = "This follow request is not pending"
                               /\ follows' = follows]_vars

\* C19 amended: the same, except that with no such row the answer is 404
\* when user_id is not a registered user and 400 otherwise
ApproveOnlyPendingOrNotFound ==
    [][/\ NeverBackToPending
       /\ Called("approve_follow_request") =>
              LET found == FollowOf(follows, last'.arg, last'.user)
              IN IF found = {}
                 THEN /\ last'.status = IF last'.arg \in Users THEN 400 ELSE 404
                      /\ follows' = follows
                 ELSE \A f \in found :
                          IF f.status = "pending"
                          THEN /\ last'.status = 200
                               /\ follows' = (follows \ {f}) \cup
                                      {[f EXCEPT !.status = "accepted"]}
                          ELSE /\ last'.status = 400
                               /\ last'.detail = "This follow request is not pending"
                               /\ follows' = follows]_vars

\* C19 witness: an approval of an already accepted follow has been answered
\* 400 'This follow request is not pending' while another request to the
\* same user is pending
ApproveOnlyPendingWitness ==
    /\ last.op = "approve_follow_request" /\ last.status = 400
    /\ last.detail = "This follow request is not pending"
    /\ \E f \in FollowOf(follows, last.arg, last.user) : f.status = "accepted"
    /\ \E g \in follows : g.followed_id = last.user /\ g.status = "pending"

\* C20 as stated: reject_follow_request(user_id) by C deletes the Follow
\* (user_id -> C), PENDING or ACCEPTED, and leaves every other row unchanged;
\* when user_id does not follow C it answers 400 'This user does not follow
\* you' and no row changes
RejectDeletesThatFollow ==
    [][Called("reject_follow_request") =>
          LET found == FollowOf(follows, last'.arg, last'.user)
          IN IF found # {}
             THEN last'.status = 200 /\ follows' = follows \ found
             ELSE /\ last'.status = 400
                  /\ last'.detail = "This user does not follow you"
                  /\ follows' = follows]_vars

\* C20 amended: the same, except that when there is no such row the answer
\* is 400 'You cannot approve yourself' for user_id = C, 404 'User not found'
\* for a user_id that is not registered, and 400 'This user does not follow
\* you' otherwise
RejectDeletesThatFollowOrRefuses ==
    [][Called("reject_follow_request") =>
          LET found == FollowOf(follows, last'.arg, last'.user)
          IN IF found # {}
             THEN last'.status = 200 /\ follows' = follows \ found
             ELSE /\ follows' = follows
                  /\ IF last'.arg = last'.user
                     THEN /\ last'.status = 400
                          /\ last'.detail = "You cannot approve yourself"
                     ELSE IF last'.arg \notin Users
                     THEN /\ last'.status = 404
                          /\ last'.detail = "User not found"
                     ELSE /\ last'.status = 400
                          /\ last'.detail = "This user does not follow you"]_vars

\* C20 witness: the removal of an accepted follow has been answered 200
\* while the user keeps another follower
RejectDeletesThatFollowWitness ==
    /\ last.op = "reject_follow_request" /\ last.status = 200
    /\ FollowOf(follows, last.arg, last.user) = {}
    /\ ~private[last.user]
    /\ \E g \in follows : g.followed_id = last.user

\* the accumulated score of game g in a dict of recommendations
ScoreOf(recs, g) == (CHOOSE e \in Range(recs) : e.game_id = g).score

\* the candidates of a dict of recommendations: its keys
Keys(recs) == {e.game_id : e \in Range(recs)}

\* C24: the list generate_recommendations returns is ordered by
\* non-increasing accumulated score and is the first min(k, number of
\* candidates) candidates of that order: no candidate left out has a higher
\* score than one included, and fewer than k candidates are all returned,
\* with no padding
RankedByScore ==
    (resp.status = 200 /\ ~resp.cold) =>
        /\ Len(resp.ids) = Min(resp.limit, Len(resp.recs))
        /\ NoRepeats(resp.ids)
        /\ Range(resp.ids) \subseteq Keys(resp.recs)
        /\ \A i, j \in DOMAIN resp.ids :
               i < j => ScoreOf(resp.recs, resp.ids[i]) >= ScoreOf(resp.recs, resp.ids[j])
        /\ \A g \in Keys(resp.recs) \ Range(resp.ids) :
               \A h \in Range(resp.ids) :
                   ScoreOf(resp.recs, g) <= ScoreOf(resp.recs, h)

\* C24 witness: two candidates of different positive scores, the lower one
\* scored first, and a limit of 1 that leaves it out
RankedByScoreWitness ==
    /\ resp.status = 200 /\ resp.limit = 1
    /\ Len(resp.recs) = 2
    /\ 0 < resp.recs[1].score /\ resp.recs[1].score < resp.recs[2].score
    /\ resp.ids = <<resp.recs[2].game_id>>

\* the similarity of the answered request's target to user n
TargetSim(n) == CosineSimilarity(FetchData(reviews), resp.target, n)

\* the users with a review, the answered request's target excepted
OtherReviewers == {reviews[i].user_id : i \in DOMAIN reviews} \ {resp.target}

\* the (at most) ten other users most similar to the target: fewer than ten
\* others are more similar, or as similar with a smaller id
TenMostSimilar ==
    LET sim == [n \in OtherReviewers |-> TargetSim(n)]
    IN {n \in OtherReviewers :
           Cardinality({m \in OtherReviewers :
                           \/ sim[m] > sim[n]
                           \/ (sim[m] = sim[n] /\ m < n)}) < TopNeighbors}

\* the reviews of game g that count: by one of the ten, rated >= 7.0
Contributions(g) ==
    LET ten == TenMostSimilar
    IN {i \in DOMAIN reviews : /\ reviews[i].game_id = g
                                /\ reviews[i].user_id \in ten
                                /\ reviews[i].rating >= LikeThreshold}

\* the sum of sim(target, n) * rating(n, g) over the reviews that count
ExpectedScore(g) ==
    LET c == Contributions(g)
    IN SumOver(c, [i \in c |-> TargetSim(reviews[i].user_id) * reviews[i].rating])

PositionOf(s, g) == CHOOSE i \in DOMAIN s : s[i] = g

\* the selected neighbours that rated game g >= 7.0
Likers(g) == {reviews[i].user_id : i \in Contributions(g)}

\* x is a returned game liked by several neighbours of positive similarity
\* and y a returned game liked by a single neighbour
SeveralAndSingle(x, y) ==
    /\ x \in Range(resp.ids) /\ y \in Range(resp.ids)
    /\ Cardinality(Likers(x)) >= 2
    /\ \A n \in Likers(x) : TargetSim(n) > 0
    /\ Cardinality(Likers(y)) = 1

\* C25 as stated: a candidate rated >= 7.0 by several similar neighbours is
\* ranked before a candidate rated >= 7.0 by a single neighbour, however
\* similar that neighbour is
SeveralOutrankSingle ==
    (resp.status = 200 /\ ~resp.cold) =>
        \A x, y \in games :
            SeveralAndSingle(x, y) =>
                PositionOf(resp.ids, x) < PositionOf(resp.ids, y)

\* C25 amended: a candidate rated >= 7.0 by several similar neighbours is
\* ranked before a candidate rated >= 7.0 by a single neighbour when the sum
\* of its contributions sim * rating is greater than the single contribution,
\* and after it when the sum is smaller
SeveralOutrankSingleByScore ==
    (resp.status = 200 /\ ~resp.cold) =>
        \A x, y \in games :
            SeveralAndSingle(x, y) =>
                /\ ExpectedScore(x) > ExpectedScore(y)
                       => PositionOf(resp.ids, x) < PositionOf(resp.ids, y)
                /\ ExpectedScore(x) < ExpectedScore(y)
                       => PositionOf(resp.ids, y) < PositionOf(resp.ids, x)

\* C25 witness: a game liked by two neighbours is returned before a game
\* liked by one neighbour that is more similar to the target than both
SeveralOutrankSingleWitness ==
    /\ resp.status = 200 /\ ~resp.cold
    /\ \E x, y \in games :
           /\ SeveralAndSingle(x, y)
           /\ \A n \in Likers(x) : \A m \in Likers(y) : TargetSim(m) > TargetSim(n)
           /\ PositionOf(resp.ids, x) < PositionOf(resp.ids, y)

\* the data frame without the rows of the (user, game) pairs whose ratings
\* are all 0: those pairs become missing pairs
WithoutZeroPairs(df) ==
    LET NonZero(row) ==
            \E i \in Cells(df, row.user_id, row.game_id) : df[i].rating # 0
    IN SelectSeq(df, NonZero)

\* C26: a game the target has reviewed is never a candidate, whatever the
\* rating of that review, 0 included; and every similarity is the same
\* whether a (user, game) pair rated 0 is in the data or missing from it
MembershipNotValue ==
    /\ (resp.status = 200 /\ ~resp.cold) =>
           \A i \in DOMAIN reviews :
               reviews[i].user_id = resp.target =>
                   /\ reviews[i].game_id \notin Keys(resp.recs)
                   /\ reviews[i].game_id \notin Range(resp.ids)
    /\ LET df == FetchData(reviews)
       IN \A a, b \in PivotIndex(df) :
              CosineSimilarity(df, a, b) = CosineSimilarity(WithoutZeroPairs(df), a, b)

\* C26 witness: the target's only review of a game rates it 0, a selected
\* neighbour rated that game >= 7.0, and the request was answered on the
\* personalized path with another game
MembershipNotValueWitness ==
    /\ resp.status = 200 /\ resp.path = "personalized"
    /\ \E i \in DOMAIN reviews, j \in LikedByNeighbor :
           /\ reviews[i].user_id = resp.target /\ reviews[i].rating = 0
           /\ reviews[j].game_id = reviews[i].game_id
           /\ \A k \in DOMAIN reviews :
                  (reviews[k].user_id = resp.target
                   /\ reviews[k].game_id = reviews[i].game_id) => k = i

\* the users with at least one Review row
Reviewers == {reviews[i].user_id : i \in DOMAIN reviews}

AcceptedFollowing(fs, user) ==
    {f.followed_id : f \in {e \in fs : e.follower_id = user /\ e.status = "accepted"}}

\* C21: get_feed returns only reviews of users the caller follows, the newest
\* first, at most `limit` of them after skipping `skip`; the list is empty
\* when the caller follows no one, and a review of a user the caller does
\* not follow never appears
FeedOfFollowedUsers ==
    last.op = "get_feed" =>
        LET followed == AcceptedFollowing(follows, last.user)
            body == last.body
        IN /\ \A k \in DOMAIN body : body[k].user_id \in followed
           /\ \A j, k \in DOMAIN body : j < k => body[j].review_id > body[k].review_id
           /\ Len(body) <= last.limit
           /\ followed = {} => body = <<>>
           /\ [k \in DOMAIN body |-> body[k].review_id] =
                  Slice(Offset(ReviewsNewestFirst(reviews, followed), last.skip),
                        last.limit)

\* what get_feed does return: the same list, with every user the caller has a
\* Follow row for, accepted or still pending, counted as followed
FeedOfFollowRows ==
    last.op = "get_feed" =>
        LET followed == FollowingIds(follows, last.user)
            body == last.body
        IN /\ \A k \in DOMAIN body : body[k].user_id \in followed
           /\ \A j, k \in DOMAIN body : j < k => body[j].review_id > body[k].review_id
           /\ Len(body) <= last.limit
           /\ followed = {} => body = <<>>
           /\ [k \in DOMAIN body |-> body[k].review_id] =
                  Slice(Offset(ReviewsNewestFirst(reviews, followed), last.skip),
                        last.limit)

\* a feed with an item, cut by skip and by limit
FeedOfFollowRowsWitness ==
    /\ last.op = "get_feed"
    /\ last.skip = 1
    /\ Len(last.body) = 1
    /\ last.limit = 1
    /\ Cardinality({i \in ReviewIds(reviews) :
                       reviews[i].user_id \in FollowingIds(follows, last.user)}) = 3

\* the comment behind a call, before the call
TargetComment == comments[last'.arg]

\* every row but one is as it was
OnlyRowChanged(old, new, id) ==
    /\ DOMAIN new = DOMAIN old
    /\ \A i \in DOMAIN old : i # id => new[i] = old[i]

\* C22: update_comment, delete_comment and delete_review by a user who is not
\* the author answer 401 and leave the comment or the review as it was; by
\* the author they change or delete that record and no other
OnlyOwnerChanges ==
    [][/\ (Called("update_comment") /\ last'.arg \in CommentIds(comments)) =>
            IF last'.user # TargetComment.user_id
            THEN last'.status = 401 /\ UNCHANGED store
            ELSE /\ last'.status = 200
                 /\ comments'[last'.arg] = last'.body
                 /\ comments'[last'.arg].updated_at # 0
                 /\ OnlyRowChanged(comments, comments', last'.arg)
                 /\ UNCHANGED <<reviews, likes>>
       /\ (Called("delete_comment") /\ last'.arg \in CommentIds(comments)) =>
            IF last'.user # TargetComment.user_id
            THEN last'.status = 401 /\ UNCHANGED store
            ELSE /\ last'.status = 204
                 /\ last'.arg \notin CommentIds(comments')
                 /\ OnlyRowChanged(comments, comments', last'.arg)
                 /\ UNCHANGED <<reviews, likes>>
       /\ (Called("delete_review") /\ last'.arg \in ReviewIds(reviews)) =>
            IF last'.user # reviews[last'.arg].user_id
            THEN last'.status = 401 /\ UNCHANGED store
            ELSE /\ last'.status = 204
                 /\ last'.arg \notin ReviewIds(reviews')
                 /\ OnlyRowChanged(reviews, reviews', last'.arg)
                 /\ UNCHANGED <<comments, likes>>]_vars

\* the part of C22 about callers who are not the author
StrangerChangesNothing ==
    [][(/\ \/ Called("update_comment") /\ last'.arg \in CommentIds(comments)
              /\ last'.user # TargetComment.user_id
           \/ Called("delete_comment") /\ last'.arg \in CommentIds(comments)
              /\ last'.user # TargetComment.user_id
           \/ Called("delete_review") /\ last'.arg \in ReviewIds(reviews)
              /\ last'.user # reviews[last'.arg].user_id) =>
            last'.status = 401 /\ UNCHANGED store]_vars

\* the handlers behind _check_user_interaction_auth of interactions.py
InteractionOps ==
    {"like_review", "unlike_review", "get_review_likes", "create_comment",
     "get_review_comments"}

\* the author has accepted the user's follow request
AcceptedFollower(fs, user, author) ==
    \E f \in fs : f.follower_id = user /\ f.followed_id = author /\ f.status = "accepted"

\* C29: on a review of a private author, like_review, unlike_review,
\* get_review_likes, create_comment and get_review_comments pass the
\* authorization only for the author and for a user whose follow the author
\* has accepted; any other caller, one whose request is still pending
\* included, gets 403 and no Like or Comment is created or deleted
InteractionsNeedAcceptedFollow ==
    [][(/\ last' # last
        /\ last'.op \in InteractionOps
        /\ last'.arg \in ReviewIds(reviews)
        /\ private[reviews[last'.arg].user_id]) =>
            IF \/ last'.user = reviews[last'.arg].user_id
               \/ AcceptedFollower(follows, last'.user, reviews[last'.arg].user_id)
            THEN last'.status # 403
            ELSE last'.status = 403 /\ likes' = likes /\ comments' = comments]_vars

\* C30: get_review of a review of a private author answers 200 with the
\* review to the author and to a user who follows the author, and 403 to
\* anybody else; of a review of a public author it answers 200 to everybody
ReviewVisibleToFollowers ==
    (last.op = "get_review" /\ last.arg \in ReviewIds(reviews)) =>
        LET author == reviews[last.arg].user_id
        IN IF private[author] /\ last.user # author
                              /\ ~AcceptedFollower(follows, last.user, author)
           THEN last.status = 403
           ELSE last.status = 200 /\ last.body.review_id = last.arg

====
